---- MODULE Spec2Model ----
(***************************************************************************)
(* Model of the mp request client (internal/client), its endpoint          *)
(* resolver, and the auto-pagination loop of `mp profiles query` and       *)
(* `mp profiles groups`.                                                   *)
(***************************************************************************)
EXTENDS Integers, Sequences, FiniteSets, TLC

(***************************************************************************)
(* Bounds of the model.                                                    *)
(***************************************************************************)
\* Largest page index the model lets the loop request, plus one.
MaxPages == 3
\* Largest total the server reports in a page envelope.
MaxTotal == 5
\* Largest result cap (--limit) the caller gives.
MaxLimit == 3
\* Largest valid page size (--page-size) the caller gives.
MaxPageSizeGiven == 2
\* Largest attempt number backoff is applied to as a pure function.
MaxAttempt == 3

(***************************************************************************)
(* Program constants.                                                      *)
(***************************************************************************)
\* Variant: a retry budget of two.
maxRetries_Two == 1 + 1

maxRetries == 1
baseBackoffSec == 1
StatusTooManyRequests == 429
MaxPageSize == 1000
MaxExportLimit == 100000

(***************************************************************************)
(* int64 arithmetic.  time.Duration and int are 64-bit two's-complement    *)
(* integers; a value is a little-endian sequence of limbs in base          *)
(* LimbBase, Int64Limbs of them for an int64 and WideLimbs for an exact    *)
(* (never wrapping) intermediate.                                          *)
(***************************************************************************)
LimbBase == 2^8
Int64Limbs == 64 \div 8
WideLimbs == 96 \div 8

Zero(w) == [i \in 1..w |-> 0]

RECURSIVE MulAdd(_, _, _)
\* v*m + c, truncated to Len(v) limbs (the carry out of the top limb is lost).
MulAdd(v, m, c) ==
    IF v = <<>> THEN <<>>
    ELSE LET t == Head(v) * m + c
         IN  <<t % LimbBase>> \o MulAdd(Tail(v), m, t \div LimbBase)

\* The natural number n < 2^31 as a w-limb value.
FromNat(n, w) == MulAdd(Zero(w), 1, n)

\* A wide value is a non-negative int64 (<= 2^63 - 1).
FitsInt64(v) ==
    /\ \A i \in (Int64Limbs + 1)..Len(v) : v[i] = 0
    /\ v[Int64Limbs] < LimbBase \div 2

\* A wide value is the magnitude of some int64 (<= 2^63).
FitsMagnitude(v) ==
    \/ FitsInt64(v)
    \/ /\ \A i \in (Int64Limbs + 1)..Len(v) : v[i] = 0
       /\ v[Int64Limbs] = LimbBase \div 2
       /\ \A i \in 1..(Int64Limbs - 1) : v[i] = 0

\* x * time.Second for an int64 x: the product wraps modulo 2^64.
\* (time.Second is 10^9 nanoseconds = 1000 * 1000 * 1000.)
MulSecond(x) == MulAdd(MulAdd(MulAdd(x, 1000, 0), 1000, 0), 1000, 0)

\* The int64 stored in the low limbs of a wide value.
Low64(v) == SubSeq(v, 1, Int64Limbs)

\* A Duration is negative when its sign bit is set.
IsNegative(d) == d[Int64Limbs] >= LimbBase \div 2

(***************************************************************************)
(* strconv.Atoi on a string given as its sequence of characters.           *)
(***************************************************************************)
Digits == <<"0", "1", "2", "3", "4", "5", "6", "7", "8", "9">>

IsDigit(c) == \E d \in 1..10 : Digits[d] = c

DigitVal(c) == (CHOOSE d \in 1..10 : Digits[d] = c) - 1

RECURSIVE ParseDigits(_, _)
\* Accumulates decimal digits into the wide value acc; fails on a character
\* that is not a digit and on a magnitude no int64 has.
ParseDigits(s, acc) ==
    IF s = <<>> THEN [ok |-> TRUE, mag |-> acc]
    ELSE IF ~IsDigit(Head(s)) THEN [ok |-> FALSE, mag |-> acc]
    ELSE LET nxt == MulAdd(acc, 10, DigitVal(Head(s)))
         IN  IF ~FitsMagnitude(nxt) THEN [ok |-> FALSE, mag |-> nxt]
             ELSE ParseDigits(Tail(s), nxt)

\* [ok, neg, mag]: ok is "err == nil"; the value is -mag when neg, else mag.
Atoi(s) ==
    LET signed == s # <<>> /\ Head(s) \in {"+", "-"}
        neg    == s # <<>> /\ Head(s) = "-"
        digits == IF signed THEN Tail(s) ELSE s
        p      == ParseDigits(digits, Zero(WideLimbs))
    IN  [ok  |-> digits # <<>> /\ p.ok /\ (neg \/ FitsInt64(p.mag)),
         neg |-> neg,
         mag |-> p.mag]

(***************************************************************************)
(* backoff (client.go): the wait after a 429 response.                     *)
(***************************************************************************)
\* math.Pow(2, float64(attempt)) * baseBackoffSec converted to a Duration.
ExpBackoffUnits(attempt) == FromNat((2 ^ attempt) * baseBackoffSec, Int64Limbs)

backoff(attempt, r) ==
    LET ra   == r.retryAfter
        secs == Atoi(ra)
    IN  IF ra # <<>> /\ secs.ok /\ ~secs.neg /\ secs.mag # Zero(WideLimbs)
        THEN MulSecond(Low64(secs.mag))
        ELSE MulSecond(ExpBackoffUnits(attempt))

(***************************************************************************)
(* Endpoint resolver (client package): ResolveURL and ValidRegion.         *)
(***************************************************************************)
APIFamilyQuery == "query"
APIFamilyExport == "export"
APIFamilyApp == "app"
APIFamilyIngestion == "ingestion"

RegionUS == "us"
RegionEU == "eu"
RegionIN == "in"

baseURLs ==
    (APIFamilyQuery :> (RegionUS :> "https://mixpanel.com/api/query"
                     @@ RegionEU :> "https://eu.mixpanel.com/api/query"
                     @@ RegionIN :> "https://in.mixpanel.com/api/query"))
 @@ (APIFamilyExport :> (RegionUS :> "https://data.mixpanel.com/api/2.0"
                      @@ RegionEU :> "https://data-eu.mixpanel.com/api/2.0"
                      @@ RegionIN :> "https://data-in.mixpanel.com/api/2.0"))
 @@ (APIFamilyApp :> (RegionUS :> "https://mixpanel.com/api/app"
                   @@ RegionEU :> "https://eu.mixpanel.com/api/app"
                   @@ RegionIN :> "https://in.mixpanel.com/api/app"))
 @@ (APIFamilyIngestion :> (RegionUS :> "https://api.mixpanel.com"
                         @@ RegionEU :> "https://api-eu.mixpanel.com"
                         @@ RegionIN :> "https://api-in.mixpanel.com"))

\* [url, err]: err is "" when the Go error is nil.
\* Variant: an unknown region falls back to the US endpoint.
ResolveURL_DefaultRegion(family, region) ==
    IF family \notin DOMAIN baseURLs
    THEN [url |-> "", err |-> "unknown API family"]
    ELSE IF region \notin DOMAIN baseURLs[family]
    THEN [url |-> baseURLs[family][RegionUS], err |-> ""]
    ELSE [url |-> baseURLs[family][region], err |-> ""]

ResolveURL(family, region) ==
    IF family \notin DOMAIN baseURLs
    THEN [url |-> "", err |-> "unknown API family"]
    ELSE IF region \notin DOMAIN baseURLs[family]
    THEN [url |-> "", err |-> "unknown region"]
    ELSE [url |-> baseURLs[family][region], err |-> ""]

ValidRegion(r) == r = RegionUS \/ r = RegionEU \/ r = RegionIN

(***************************************************************************)
(* Strings.  A string whose characters matter (a region, a credential, a   *)
(* token, a body text) is the sequence of its characters.                  *)
(***************************************************************************)
UpperCase == <<"A", "B", "C", "D", "E", "F", "G", "H", "I", "J", "K", "L", "M",
               "N", "O", "P", "Q", "R", "S", "T", "U", "V", "W", "X", "Y", "Z">>
LowerCase == <<"a", "b", "c", "d", "e", "f", "g", "h", "i", "j", "k", "l", "m",
               "n", "o", "p", "q", "r", "s", "t", "u", "v", "w", "x", "y", "z">>

LowerChar(ch) ==
    IF \E i \in 1..Len(UpperCase) : UpperCase[i] = ch
    THEN LowerCase[CHOOSE i \in 1..Len(UpperCase) : UpperCase[i] = ch]
    ELSE ch

\* strings.ToLower
ToLower(s) == [i \in 1..Len(s) |-> LowerChar(s[i])]

RECURSIVE Str(_)
\* The string with the characters s.
Str(s) == IF s = <<>> THEN "" ELSE Head(s) \o Str(Tail(s))

\* strings.SplitN(s, sep, 2): the parts before and after the first sep, or
\* the single part s when sep does not occur.
SplitN2(s, sep) ==
    IF \E i \in 1..Len(s) : s[i] = sep
    THEN LET k == CHOOSE i \in 1..Len(s) :
                     s[i] = sep /\ \A j \in 1..(i - 1) : s[j] # sep
         IN  <<SubSeq(s, 1, k - 1), SubSeq(s, k + 1, Len(s))>>
    ELSE <<s>>

IsSpace(ch) == ch \in {" ", "\n", "\t", "\r"}

RECURSIVE TrimLeft(_)
TrimLeft(s) == IF s # <<>> /\ IsSpace(Head(s)) THEN TrimLeft(Tail(s)) ELSE s

RECURSIVE TrimRight(_)
TrimRight(s) ==
    IF s # <<>> /\ IsSpace(s[Len(s)]) THEN TrimRight(SubSeq(s, 1, Len(s) - 1)) ELSE s

\* strings.TrimSpace
TrimSpace(s) == TrimRight(TrimLeft(s))

\* base64.StdEncoding.EncodeToString: an injective encoding of the bytes.
Base64(bytes) == [base64 |-> bytes]

(***************************************************************************)
(* client.New (client.go).                                                 *)
(***************************************************************************)
\* The nil *Client.
NoClient == [auth |-> Base64(<<>>), region |-> "", projectID |-> <<>>, debug |-> FALSE]

\* Variant: only a configuration without account and without secret fails.
New_BothMissing(serviceAccount, serviceSecret, region, projectID, debug) ==
    IF ~ValidRegion(Str(region))
    THEN [err |-> "invalid region", client |-> NoClient]
    ELSE IF serviceAccount = <<>> /\ serviceSecret = <<>>
    THEN [err |-> "service_account and service_secret must be configured",
          client |-> NoClient]
    ELSE [err |-> "",
          client |-> [auth |-> Base64(serviceAccount \o <<":">> \o serviceSecret),
                      region |-> Str(region), projectID |-> projectID,
                      debug |-> debug]]

\* [err, client]: err is "" when the Go error is nil.
New(serviceAccount, serviceSecret, region, projectID, debug) ==
    IF ~ValidRegion(Str(region))
    THEN [err |-> "invalid region", client |-> NoClient]
    ELSE IF serviceAccount = <<>> \/ serviceSecret = <<>>
    THEN [err |-> "service_account and service_secret must be configured",
          client |-> NoClient]
    ELSE [err |-> "",
          client |-> [auth |-> Base64(serviceAccount \o <<":">> \o serviceSecret),
                      region |-> Str(region), projectID |-> projectID,
                      debug |-> debug]]

(***************************************************************************)
(* Start of a command (cmd package): the configuration as viper gives it   *)
(* (flag, environment or file, merged) and the environment.                *)
(***************************************************************************)
\* isDebug
isDebug(environ) == environ.MP_DEBUG = "1"

\* rootCmd.PersistentPreRunE: the error, "" for nil.
PersistentPreRunE(v) ==
    LET region == ToLower(v.region)
    IN  IF v.region # <<>> /\ Str(region) # "us" /\ Str(region) # "eu"
                            /\ Str(region) # "in"
        THEN "invalid region"
        ELSE ""

\* Variant: the persisted credentials win over MP_TOKEN whenever they are
\* complete.
newClient_ConfigFirst(v, environ) ==
    LET token == environ.MP_TOKEN
        parts == SplitN2(token, ":")
        fromConfig == v.service_account # <<>> /\ v.service_secret # <<>>
        bad   == token # <<>> /\ ~fromConfig
                 /\ (Len(parts) # 2 \/ parts[1] = <<>> \/ parts[2] = <<>>)
        sa    == IF token # <<>> /\ ~fromConfig /\ ~bad THEN parts[1]
                 ELSE v.service_account
        ss    == IF token # <<>> /\ ~fromConfig /\ ~bad THEN parts[2]
                 ELSE v.service_secret
        region == IF v.region = <<>> THEN <<"u", "s">> ELSE v.region
    IN  IF bad
        THEN [err |-> "MP_TOKEN must be in the format user:secret", client |-> NoClient]
        ELSE New(sa, ss, region, v.project_id, isDebug(environ))

\* Variant: a malformed MP_TOKEN leaves the credentials to the persisted
\* values.
newClient_FallBack(v, environ) ==
    LET token == environ.MP_TOKEN
        parts == SplitN2(token, ":")
        bad   == token # <<>>
                 /\ (Len(parts) # 2 \/ parts[1] = <<>> \/ parts[2] = <<>>)
        sa    == IF token # <<>> /\ ~bad THEN parts[1] ELSE v.service_account
        ss    == IF token # <<>> /\ ~bad THEN parts[2] ELSE v.service_secret
        region == IF v.region = <<>> THEN <<"u", "s">> ELSE v.region
    IN  New(sa, ss, region, v.project_id, isDebug(environ))

\* newClient (helpers.go): [err, client].
newClient(v, environ) ==
    LET token == environ.MP_TOKEN
        parts == SplitN2(token, ":")
        bad   == token # <<>>
                 /\ (Len(parts) # 2 \/ parts[1] = <<>> \/ parts[2] = <<>>)
        sa    == IF token # <<>> /\ ~bad THEN parts[1] ELSE v.service_account
        ss    == IF token # <<>> /\ ~bad THEN parts[2] ELSE v.service_secret
        region == IF v.region = <<>> THEN <<"u", "s">> ELSE v.region
    IN  IF bad
        THEN [err |-> "MP_TOKEN must be in the format user:secret", client |-> NoClient]
        ELSE New(sa, ss, region, v.project_id, isDebug(environ))

\* Variant: a missing project id is not an error.
requireProjectID_Lenient(v) == [pid |-> v.project_id, err |-> ""]

\* requireProjectID (helpers.go): [pid, err].
requireProjectID(v) ==
    IF v.project_id = <<>>
    THEN [pid |-> <<>>, err |-> "project ID is required"]
    ELSE [pid |-> v.project_id, err |-> ""]

(***************************************************************************)
(* HTTP responses as the client and the commands see them.                 *)
(***************************************************************************)
NoResp == [kind |-> "none"]
TransportError == [kind |-> "error"]
Response(status, ra, body) ==
    [kind |-> "response", status |-> status, retryAfter |-> ra, body |-> body]

\* A body that is not JSON, a body whose read fails, and a JSON object
\* decoded into engageResponse (absent fields take Go's zero values).
Text(t) == [kind |-> "text", text |-> t]
TextBody == Text(<<"<", "h", ">">>)
BrokenBody == [kind |-> "broken"]
Envelope(status, session, total, results) ==
    [kind |-> "envelope", status |-> status, session_id |-> session,
     total |-> total, results |-> results]
EmptyEnvelope == Envelope("", "", 0, <<>>)

\* The body of an export: n JSON lines, then a line that is not JSON when
\* bad.
Lines(n, bad) == [kind |-> "lines", n |-> n, bad |-> bad]

\* The bytes of a body; of a JSON body only the braces are kept, which is
\* the whole text of the empty object.
BodyText(b) == IF b.kind = "text" THEN b.text ELSE <<"{", "}">>

(***************************************************************************)
(* What the server may answer.                                             *)
(***************************************************************************)
SuccessStatuses == {200}
ErrorStatuses == {400, 500}
EnvStatuses == {"ok", "", "error"}
Sessions == {"", "s1", "s2"}
Totals == -1..MaxTotal
RetryAfterSent == {<<>>, <<"2">>}
PageSizeInputs == 0..MaxPageSizeGiven \cup {MaxPageSize + 1}
LimitInputs == -1..MaxLimit
ExportLimitInputs == {-1, 0, 1, MaxExportLimit + 1}
ErrorBodies == { Text(<<" ", "n", "o", "\n">>), EmptyEnvelope, Text(<<>>) }

\* The records of a page are numbered on from the base records already served.
Records(base, n) == [i \in 1..n |-> base + i]

Envelopes(base, ps) ==
    { Envelope(st, se, t, Records(base, n)) :
        st \in EnvStatuses, se \in Sessions, t \in Totals, n \in 0..(ps + 1) }

FailureResponses ==
         { Response(StatusTooManyRequests, ra, TextBody) : ra \in RetryAfterSent }
    \cup { Response(s, <<>>, b) : s \in ErrorStatuses, b \in ErrorBodies }

ServerResponses(base, ps) ==
    FailureResponses
    \cup { Response(s, <<>>, b) :
             s \in SuccessStatuses, b \in {TextBody, BrokenBody} \cup Envelopes(base, ps) }

ExportResponses ==
    FailureResponses
    \cup { Response(s, <<>>, b) :
             s \in SuccessStatuses,
             b \in {BrokenBody} \cup { Lines(n, bad) : n \in 0..2, bad \in BOOLEAN } }

RECURSIVE Flatten(_)
Flatten(ss) == IF ss = <<>> THEN <<>> ELSE Head(ss) \o Flatten(Tail(ss))

(***************************************************************************)
(* State.                                                                  *)
(***************************************************************************)
VARIABLES
    pageSize,      \* --page-size
    limit,         \* --limit
    c,             \* the *client.Client of the command
    fpc,           \* position of runProfilesQuery / runProfilesGroups
    page,          \* page index of the loop
    sessionID,     \* continuation token of the loop
    totalFromAPI,  \* total of the loop, -1 while unknown
    allResults,    \* accumulator of the loop
    params,        \* form parameters of the current page request
    baseParams,    \* form parameters built before the loop
    pageReqs,      \* forms of the page requests posted so far, in order
    err,           \* error returned by the command, "" for nil
    errDetail,     \* status code and body text its message carries
    out,           \* what the command wrote to its output
    served,        \* record lists of the pages accepted so far
    firstTotal,    \* <<t>> once the first accepted envelope reported total t
    tokens,        \* <<first, last>> session_id of the accepted envelopes
    cpc,           \* position of Client.do
    attempt,       \* loop counter of Client.do
    resp,          \* resp of Client.do, then of the caller
    callErr,       \* error returned by Client.do, "" for nil
    wait,          \* Duration the client sleeps for
    callLog,       \* outcomes of the attempts of the current call, in order
    callReqs,      \* requests sent by the current call
    call,          \* method, URL, content type and form of the current call
    reqBody,       \* the reader body of Client.do
    sent,          \* the requests of the current call as they went out
    slept,         \* sleeps the current call has completed
    openBodies,    \* response bodies handed out and not yet closed
    closed,        \* positions in callLog of the responses Client.do closed
    nreq,          \* requests sent by the command
    ncalls,        \* Post calls made by the command
    fnArg,         \* argument of a function applied on its own
    fnRes,         \* its result
    cmd,           \* the command that runs
    config,        \* the configuration as viper gives it
    environ,       \* the environment variables MP_TOKEN and MP_DEBUG
    store,         \* the values of the configuration file
    printed,       \* the entries the last config command wrote
    cfgErr,        \* the error of the last config command, "" for nil
    groups         \* runProfilesGroups run on the responses of the query

wireVars == <<call, reqBody, sent, slept, openBodies, closed>>
loopVars == <<page, sessionID, totalFromAPI, allResults, params, baseParams,
              pageReqs>>
cmdVars == <<pageSize, limit, c, fpc, err, errDetail, out, served, firstTotal, tokens, ncalls>>
callVars == <<cpc, attempt, resp, callErr, wait, callLog, callReqs, nreq, wireVars>>
fnVars == <<fnArg, fnRes>>
inputVars == <<cmd, config, environ>>
storeVars == <<store, printed, cfgErr>>
vars == <<loopVars, cmdVars, callVars, fnVars, inputVars, storeVars, groups>>

NoOut == [written |-> FALSE]
NoArg == [fn |-> "none"]
NoRes == [done |-> FALSE]
NoParams == [page |-> -1, session_id |-> ""]
NoDetail == [code |-> 0, text |-> <<>>]

(***************************************************************************)
(* Client.do (client.go), entered through Client.Post.                     *)
(***************************************************************************)
\* Variant: every status from 429 up is retried.
doAfter_RetryServerErrors(att, o) ==
    IF o.kind = "error"
    THEN [next |-> "returned", resp |-> NoResp, err |-> "executing request"]
    ELSE IF o.status < StatusTooManyRequests
    THEN [next |-> "returned", resp |-> o, err |-> ""]
    ELSE IF att < maxRetries
    THEN [next |-> "sleep", resp |-> o, err |-> ""]
    ELSE [next |-> "returned", resp |-> o, err |-> ""]

\* Variant: a transport failure is returned as a nil response without error.
doAfter_SwallowError(att, o) ==
    IF o.kind = "error"
    THEN [next |-> "returned", resp |-> NoResp, err |-> ""]
    ELSE IF o.status # StatusTooManyRequests
    THEN [next |-> "returned", resp |-> o, err |-> ""]
    ELSE IF att < maxRetries
    THEN [next |-> "sleep", resp |-> o, err |-> ""]
    ELSE [next |-> "returned", resp |-> o, err |-> ""]

\* Variant: a 429 with budget left is followed by the next attempt at once,
\* without close and sleep.
doAfter_NoSleep(att, o) ==
    IF o.kind = "error"
    THEN [next |-> "returned", resp |-> NoResp, err |-> "executing request"]
    ELSE IF o.status # StatusTooManyRequests
    THEN [next |-> "returned", resp |-> o, err |-> ""]
    ELSE IF att < maxRetries
    THEN [next |-> "send", resp |-> o, err |-> ""]
    ELSE [next |-> "returned", resp |-> o, err |-> ""]

\* Variant: a 429 is retried once more than the budget allows.
doAfter_RetryTwice(att, o) ==
    IF o.kind = "error"
    THEN [next |-> "returned", resp |-> NoResp, err |-> "executing request"]
    ELSE IF o.status # StatusTooManyRequests
    THEN [next |-> "returned", resp |-> o, err |-> ""]
    ELSE IF att < maxRetries + 1
    THEN [next |-> "sleep", resp |-> o, err |-> ""]
    ELSE [next |-> "returned", resp |-> o, err |-> ""]

\* What the loop of do decides once httpClient.Do has returned outcome o for
\* the given attempt: return an error, return the response, or back off.
doAfter(att, o) ==
    IF o.kind = "error"
    THEN [next |-> "returned", resp |-> NoResp, err |-> "executing request"]
    ELSE IF o.status # StatusTooManyRequests
    THEN [next |-> "returned", resp |-> o, err |-> ""]
    ELSE IF att < maxRetries
    THEN [next |-> "sleep", resp |-> o, err |-> ""]
    ELSE [next |-> "returned", resp |-> o, err |-> ""]

RECURSIVE Itoa(_)
\* strconv.Itoa of a natural number.
Itoa(n) == IF n < 10 THEN Digits[n + 1] ELSE Itoa(n \div 10) \o Digits[(n % 10) + 1]

RECURSIVE Encode(_)
\* url.Values.Encode: values is the sequence of the <<key, value>> pairs in
\* the order of their keys; the text is k=v&k=v...
Encode(values) ==
    IF values = <<>> THEN ""
    ELSE LET kv == Head(values)[1] \o "=" \o Head(values)[2]
         IN  IF Tail(values) = <<>> THEN kv ELSE kv \o "&" \o Encode(Tail(values))

\* The nil io.Reader, and stringReader(s): s is what is left to read.
NoBody == [nil |-> TRUE, s |-> ""]
stringReader(text) == [nil |-> FALSE, s |-> text]

NoCall == [method |-> "", url |-> "", contentType |-> "", form |-> <<>>]

\* Variant: the retry keeps the reader of the attempt before it.
RebuiltBody_Reuse(form, body) == body

\* The body reader after the sleep of a retry.
RebuiltBody(form, body) ==
    IF form # <<>> THEN stringReader(Encode(form)) ELSE body

\* do of client cl up to its retry loop: resolve the base URL, build URL
\* and form body.
doEnter(cl, method, family, path, query, form) ==
    LET base == ResolveURL(family, cl.region)
    IN  /\ callLog' = <<>>
        /\ callReqs' = 0
        /\ attempt' = 0
        /\ resp' = NoResp
        /\ wait' = Zero(Int64Limbs)
        /\ sent' = <<>>
        /\ slept' = 0
        /\ openBodies' = openBodies
        /\ closed' = <<>>
        /\ IF base.err # ""
           THEN /\ cpc' = "returned"
                /\ callErr' = base.err
                /\ call' = NoCall
                /\ reqBody' = NoBody
           ELSE /\ cpc' = "send"
                /\ callErr' = ""
                /\ call' = [method |-> method,
                            url |-> IF query # <<>>
                                    THEN base.url \o path \o "?" \o Encode(query)
                                    ELSE base.url \o path,
                            contentType |-> IF form # <<>>
                                            THEN "application/x-www-form-urlencoded"
                                            ELSE "",
                            form |-> form]
                /\ reqBody' = IF form # <<>> THEN stringReader(Encode(form))
                              ELSE NoBody

\* Client.Get and Client.Post.
Get(cl, family, path, values) == doEnter(cl, "GET", family, path, values, <<>>)
Post(cl, family, path, values) == doEnter(cl, "POST", family, path, <<>>, values)

\* Variant: the request carries no credentials.
BasicAuth_Anonymous(cl) == [basic |-> Base64(<<>>)]

\* The Authorization header: "Basic " and the auth of the client.
BasicAuth(cl) == [basic |-> cl.auth]

\* One attempt: NewRequest, the headers, and the request goes out.
SendAttempt ==
    /\ cpc = "send"
    /\ cpc' = "await"
    /\ callReqs' = callReqs + 1
    /\ nreq' = nreq + 1
    /\ sent' = Append(sent, [method |-> call.method, url |-> call.url,
                             authorization |-> BasicAuth(c),
                             acceptEncoding |-> "gzip",
                             accept |-> "application/json",
                             contentType |-> call.contentType,
                             body |-> reqBody.s])
    /\ reqBody' = [reqBody EXCEPT !.s = ""]
    /\ UNCHANGED <<attempt, resp, callErr, wait, callLog, call, slept, openBodies,
                   closed>>
    /\ UNCHANGED <<loopVars, cmdVars, fnVars, inputVars, storeVars, groups>>

\* httpClient.Do returns outcome o, a response with its body open; on a 429
\* with budget left the client computes the wait and is about to close the
\* body.
Receive(o) ==
    /\ cpc = "await"
    /\ LET d == doAfter(attempt, o)
       IN  /\ cpc' = IF d.next = "sleep" THEN "close" ELSE d.next
           /\ resp' = d.resp
           /\ callErr' = d.err
           /\ wait' = IF d.next = "sleep" THEN backoff(attempt, o) ELSE wait
           /\ attempt' = attempt
           /\ openBodies' = IF o.kind = "response" THEN openBodies + 1
                            ELSE openBodies
    /\ callLog' = Append(callLog, o)
    /\ UNCHANGED <<callReqs, nreq, call, reqBody, sent, slept, closed>>
    /\ UNCHANGED <<loopVars, cmdVars, fnVars, inputVars, storeVars, groups>>

ReceiveError == Receive(TransportError)

ReceiveResponse ==
    /\ cpc = "await"
    /\ \/ /\ cmd = "profiles"
          /\ \E r \in ServerResponses(Len(Flatten(served)), pageSize) : Receive(r)
       \/ /\ cmd = "export"
          /\ \E r \in ExportResponses : Receive(r)

\* Variant: the body of the 429 is left open.
AfterClose_Leak(n) == n

\* The open bodies after resp.Body.Close().
AfterClose(n) == n - 1

\* resp.Body.Close() of the 429, then time.Sleep(wait) starts.
CloseRetried ==
    /\ cpc = "close"
    /\ cpc' = "sleep"
    /\ openBodies' = AfterClose(openBodies)
    /\ closed' = Append(closed, Len(callLog))
    /\ UNCHANGED <<attempt, resp, callErr, wait, callLog, callReqs, nreq, call,
                   reqBody, sent, slept>>
    /\ UNCHANGED <<loopVars, cmdVars, fnVars, inputVars, storeVars, groups>>

\* time.Sleep returns: the form body is rebuilt and the next attempt starts.
WakeRetry ==
    /\ cpc = "sleep"
    /\ cpc' = "send"
    /\ attempt' = attempt + 1
    /\ wait' = Zero(Int64Limbs)
    /\ slept' = slept + 1
    /\ reqBody' = RebuiltBody(call.form, reqBody)
    /\ UNCHANGED <<resp, callErr, callLog, callReqs, nreq, call, sent, openBodies,
                   closed>>
    /\ UNCHANGED <<loopVars, cmdVars, fnVars, inputVars, storeVars, groups>>

(***************************************************************************)
(* The commands: runProfilesQuery and runProfilesGroups.                   *)
(***************************************************************************)
\* Variant: only statuses from 500 up are API errors.
readResponseBody_ServerErrorsOnly(r) ==
    IF r.body.kind = "broken"
    THEN [err |-> "reading response body", detail |-> NoDetail, body |-> r.body]
    ELSE IF r.status >= 500
    THEN [err |-> "API error",
          detail |-> [code |-> r.status, text |-> TrimSpace(BodyText(r.body))],
          body |-> r.body]
    ELSE [err |-> "", detail |-> NoDetail, body |-> r.body]

\* readResponseBody (helpers.go): [err, detail, body]; detail is what the
\* message "API error (HTTP %d): %s" is formatted with.
readResponseBody(r) ==
    IF r.body.kind = "broken"
    THEN [err |-> "reading response body", detail |-> NoDetail, body |-> r.body]
    ELSE IF r.status >= 400
    THEN [err |-> "API error",
          detail |-> [code |-> r.status, text |-> TrimSpace(BodyText(r.body))],
          body |-> r.body]
    ELSE [err |-> "", detail |-> NoDetail, body |-> r.body]

\* json.Unmarshal(body, &pageResp): [err, pageResp].
Unmarshal(body) ==
    IF body.kind = "envelope" THEN [err |-> "", pageResp |-> body]
    ELSE [err |-> "parsing profiles response", pageResp |-> EmptyEnvelope]

\* Variant: the envelope status is not checked.
Accepted_Any(status) == TRUE

\* The envelope status the loop lets through.
Accepted(status) == ~(status # "ok" /\ status # "")

\* Variant: every page replaces the total.
NextTotal_Latest(cur, total) == total

\* totalFromAPI after a page whose envelope carries total.
NextTotal(cur, total) == IF cur < 0 THEN total ELSE cur

\* Variant: the page goes in front of the accumulator.
Appended_Front(all, results) == results \o all

\* append(allResults, pageResp.Results...)
Appended(all, results) == all \o results

\* Variants of the stop conditions and of the truncation.
TotalReached_Strict(all, total) == Len(all) > total
TotalReached_Never(all, total) == FALSE
ShortPage_Never(results, ps) == FALSE
Truncate_None(all, lim) == all

\* The three stop conditions, in the order the loop checks them.
CapReached(all, lim) == lim > 0 /\ Len(all) >= lim
TotalReached(all, total) == Len(all) >= total
ShortPage(results, ps) == Len(results) < ps

\* allResults[:limit]
Truncate(all, lim) == SubSeq(all, 1, lim)

(***************************************************************************)
(* runProfilesGroups (part_002), as a function of the responses: groups is *)
(* the state of its loop when it is given the responses the query gets.    *)
(***************************************************************************)
NoGroups ==
    [fpc |-> "start", page |-> 0, sessionID |-> "", totalFromAPI |-> -1,
     allResults |-> <<>>, params |-> NoParams, err |-> "", out |-> NoOut]

\* The page-size check, newClient, addProjectID and the initialisation of
\* the loop.
groupsStart(g, ps, v, en) ==
    IF ps < 1 \/ ps > MaxPageSize
    THEN [g EXCEPT !.fpc = "failed", !.err = "page-size must be between 1 and 1000"]
    ELSE IF newClient(v, en).err # ""
    THEN [g EXCEPT !.fpc = "failed", !.err = newClient(v, en).err]
    ELSE IF requireProjectID(v).err # ""
    THEN [g EXCEPT !.fpc = "failed", !.err = requireProjectID(v).err]
    ELSE [g EXCEPT !.fpc = "loop", !.allResults = <<>>, !.sessionID = "",
                   !.page = 0, !.totalFromAPI = -1]

\* Top of the loop: page and session_id of the request.
groupsPost(g) ==
    [g EXCEPT !.fpc = "call",
              !.params = [page |-> g.page,
                          session_id |-> IF g.sessionID # "" THEN g.sessionID
                                         ELSE ""]]

\* Variant: the loop goes on until a short page, whatever the total.
groupsStops_ShortPageOnly(all, total, results, ps) == Len(results) < ps

\* The two stop conditions that follow the cap.
groupsStops(all, total, results, ps) == Len(all) >= total \/ Len(results) < ps

\* The rest of the loop body once c.Post has returned cErr and r, and the
\* output when the loop is left.
groupsPage(g, cErr, r, ps, lim) ==
    IF cErr # ""
    THEN [g EXCEPT !.fpc = "failed", !.err = "querying group profiles"]
    ELSE IF readResponseBody(r).err # ""
    THEN [g EXCEPT !.fpc = "failed", !.err = readResponseBody(r).err]
    ELSE IF Unmarshal(readResponseBody(r).body).err # ""
    THEN [g EXCEPT !.fpc = "failed", !.err = "parsing group profiles response"]
    ELSE LET pageResp == Unmarshal(readResponseBody(r).body).pageResp IN
    IF pageResp.status # "ok" /\ pageResp.status # ""
    THEN [g EXCEPT !.fpc = "failed", !.err = "engage API returned status"]
    ELSE LET all   == g.allResults \o pageResp.results
             total == IF g.totalFromAPI < 0 THEN pageResp.total ELSE g.totalFromAPI
             acc   == [g EXCEPT !.sessionID = pageResp.session_id,
                                !.totalFromAPI = total]
             done(final) ==
                 [acc EXCEPT !.fpc = "done", !.allResults = final,
                             !.out = [written |-> TRUE, total |-> total,
                                      count |-> Len(final), results |-> final]]
         IN  IF lim > 0 /\ Len(all) >= lim THEN done(SubSeq(all, 1, lim))
             ELSE IF groupsStops(all, total, pageResp.results, ps) THEN done(all)
             ELSE [acc EXCEPT !.fpc = "loop", !.allResults = all,
                              !.page = g.page + 1]

\* cobra runs the persistent pre-run hook of the root command, then the
\* command.
PreRun ==
    /\ fpc = "prerun"
    /\ LET e == PersistentPreRunE(config)
       IN  /\ IF e # "" THEN fpc' = "failed" /\ err' = e
              ELSE fpc' = "start" /\ err' = ""
           /\ groups' = IF cmd = "profiles" /\ e # ""
                        THEN [groups EXCEPT !.fpc = "failed", !.err = e]
                        ELSE groups
    /\ UNCHANGED <<pageSize, limit, c, errDetail, out, served, firstTotal, tokens, ncalls>>
    /\ UNCHANGED <<loopVars, callVars, fnVars, inputVars, storeVars>>

\* The command fails before its loop with error e and client cl.
FailStart(e, cl) ==
    /\ fpc' = "failed"
    /\ err' = e
    /\ c' = cl
    /\ UNCHANGED loopVars

\* url.Values{}: the form with no key.
NoValues == [k \in {} |-> ""]

\* url.Values.Set: the form with key k set to v.
SetValue(values, k, v) ==
    [x \in DOMAIN values \cup {k} |-> IF x = k THEN v ELSE values[x]]

\* The keys of the forms of the engage requests as sort.Strings orders them.
FormKeys == <<"page", "page_size", "project_id", "session_id">>

RECURSIVE PairsFrom(_, _)
PairsFrom(values, keys) ==
    IF keys = <<>> THEN <<>>
    ELSE (IF Head(keys) \in DOMAIN values
          THEN << <<Head(keys), values[Head(keys)]>> >> ELSE <<>>)
         \o PairsFrom(values, Tail(keys))

\* The <<key, value>> pairs of a form in the order url.Values.Encode writes
\* them.
Pairs(values) == PairsFrom(values, FormKeys)

\* The base parameters: addProjectID, then page_size.
BaseForm(pid, ps) ==
    SetValue(SetValue(NoValues, "project_id", Str(pid)), "page_size", Itoa(ps))

\* Variant: the index moves on by two.
NextPage_Skip(pg) == pg + 2

\* page++ at the bottom of the loop.
NextPage(pg) == pg + 1

\* The page-size check, newClient, addProjectID and the initialisation of
\* the loop.
RunStart ==
    /\ fpc = "start"
    /\ cmd = "profiles"
    /\ IF pageSize < 1 \/ pageSize > MaxPageSize
       THEN FailStart("page-size must be between 1 and 1000", c)
       ELSE LET nc == newClient(config, environ) IN
       IF nc.err # "" THEN FailStart(nc.err, nc.client)
       ELSE LET pid == requireProjectID(config) IN
       IF pid.err # "" THEN FailStart(pid.err, nc.client)
       ELSE /\ fpc' = "loop"
            /\ err' = ""
            /\ c' = nc.client
            /\ allResults' = <<>>
            /\ sessionID' = ""
            /\ page' = 0
            /\ totalFromAPI' = -1
            /\ baseParams' = BaseForm(pid.pid, pageSize)
            /\ UNCHANGED <<params, pageReqs>>
    /\ groups' = groupsStart(groups, pageSize, config, environ)
    /\ UNCHANGED <<pageSize, limit, errDetail, out, served, firstTotal, tokens, ncalls>>
    /\ UNCHANGED <<callVars, fnVars, inputVars, storeVars>>

\* Variant: the token is never attached.
PageParams_NoToken(pg, session) == [page |-> pg, session_id |-> ""]

\* The page parameters of a request; session_id is "" when the parameter
\* is not set.
PageParams(pg, session) ==
    [page |-> pg, session_id |-> IF session # "" THEN session ELSE ""]

\* The form of a page request: a copy of the base parameters with page and,
\* when there is a token, session_id set.
ProfilesForm(p, base) ==
    LET paged == SetValue(base, "page", Itoa(p.page))
    IN  IF p.session_id # "" THEN SetValue(paged, "session_id", p.session_id)
        ELSE paged

\* Top of the loop: the parameters of the page request, then c.Post.
LoopPost ==
    /\ fpc = "loop"
    /\ page < MaxPages
    /\ fpc' = "call"
    /\ params' = PageParams(page, sessionID)
    /\ ncalls' = ncalls + 1
    /\ pageReqs' = Append(pageReqs,
                          ProfilesForm(PageParams(page, sessionID), baseParams))
    /\ Post(c, APIFamilyQuery, "/engage",
            Pairs(ProfilesForm(PageParams(page, sessionID), baseParams)))
    /\ UNCHANGED <<page, sessionID, totalFromAPI, allResults, baseParams>>
    /\ groups' = IF groups.fpc = "loop" THEN groupsPost(groups) ELSE groups
    /\ UNCHANGED <<pageSize, limit, c, err, errDetail, out, served, firstTotal, tokens>>
    /\ UNCHANGED <<nreq, fnVars, inputVars, storeVars>>

\* The command returns error e, whose message carries detail d.
FailWith(e, d) ==
    /\ fpc' = "failed"
    /\ err' = e
    /\ errDetail' = d
    /\ UNCHANGED <<page, sessionID, totalFromAPI, allResults, out, served, firstTotal, tokens>>

Fail(e) == FailWith(e, NoDetail)

\* The loop is left with total and the final results, which are rendered.
Finish(total, final) ==
    /\ fpc' = "done"
    /\ err' = ""
    /\ errDetail' = NoDetail
    /\ allResults' = final
    /\ out' = [written |-> TRUE, total |-> total, count |-> Len(final),
               results |-> final]
    /\ page' = page

\* c.Post has returned: the rest of the loop body and, when the loop is
\* left, the output.
ProcessPage ==
    /\ fpc = "call"
    /\ cmd = "profiles"
    /\ cpc = "returned"
    /\ cpc' = "idle"
    /\ IF callErr # "" THEN Fail("querying profiles")
       ELSE LET rb == readResponseBody(resp) IN
       IF rb.err # "" THEN FailWith(rb.err, rb.detail)
       ELSE LET um == Unmarshal(rb.body) IN
       IF um.err # "" THEN Fail(um.err)
       ELSE LET pageResp == um.pageResp IN
       IF ~Accepted(pageResp.status) THEN Fail("engage API returned status")
       ELSE LET all2   == Appended(allResults, pageResp.results)
                total2 == NextTotal(totalFromAPI, pageResp.total)
            IN  /\ sessionID' = pageResp.session_id
                /\ totalFromAPI' = total2
                /\ served' = Append(served, pageResp.results)
                /\ firstTotal' = IF firstTotal = <<>> THEN <<pageResp.total>>
                                 ELSE firstTotal
                /\ tokens' = IF tokens = <<>>
                             THEN <<pageResp.session_id, pageResp.session_id>>
                             ELSE <<tokens[1], pageResp.session_id>>
                /\ IF CapReached(all2, limit)
                   THEN Finish(total2, Truncate(all2, limit))
                   ELSE IF TotalReached(all2, total2) \/ ShortPage(pageResp.results, pageSize)
                   THEN Finish(total2, all2)
                   ELSE /\ fpc' = "loop"
                        /\ err' = ""
                        /\ errDetail' = NoDetail
                        /\ allResults' = all2
                        /\ page' = NextPage(page)
                        /\ out' = out
    /\ groups' = IF groups.fpc = "call"
                 THEN groupsPage(groups, callErr, resp, pageSize, limit)
                 ELSE groups
    /\ UNCHANGED <<pageSize, limit, c, params, baseParams, pageReqs, ncalls>>
    /\ openBodies' = IF callErr = "" THEN openBodies - 1 ELSE openBodies
    /\ UNCHANGED <<attempt, resp, callErr, wait, callLog, callReqs, nreq>>
    /\ UNCHANGED <<call, reqBody, sent, slept, closed>>
    /\ UNCHANGED <<fnVars, inputVars, storeVars>>

(***************************************************************************)
(* The command runExportEvents (export.go), run without --json.            *)
(***************************************************************************)
\* The query parameters of the export, for fixed dates.
ExportQuery(lim, pid) ==
    << <<"from_date", "2024-01-01">> >>
    \o (IF lim > 0 THEN << <<"limit", Itoa(lim)>> >> ELSE <<>>)
    \o << <<"project_id", Str(pid)>>, <<"to_date", "2024-01-02">> >>

\* The limit check, newClient, addProjectID, the parameters and c.Get.
ExportStart ==
    /\ fpc = "start"
    /\ cmd = "export"
    /\ IF limit < 0 \/ limit > MaxExportLimit
       THEN /\ FailStart("limit must be between 0 and 100000", c)
            /\ UNCHANGED <<callVars, ncalls>>
       ELSE LET nc == newClient(config, environ) IN
       IF nc.err # ""
       THEN FailStart(nc.err, nc.client) /\ UNCHANGED <<callVars, ncalls>>
       ELSE LET pid == requireProjectID(config) IN
       IF pid.err # ""
       THEN FailStart(pid.err, nc.client) /\ UNCHANGED <<callVars, ncalls>>
       ELSE /\ fpc' = "call"
            /\ err' = ""
            /\ c' = nc.client
            /\ ncalls' = ncalls + 1
            /\ Get(nc.client, APIFamilyExport, "/export",
                   ExportQuery(limit, pid.pid))
            /\ UNCHANGED <<loopVars, nreq>>
    /\ UNCHANGED <<pageSize, limit, errDetail, out, served, firstTotal, tokens>>
    /\ UNCHANGED <<fnVars, inputVars, storeVars, groups>>

\* The scanner loop over the body: the lines written and the error.
Stream(body) ==
    IF body.kind = "broken"
    THEN [lines |-> <<>>, err |-> "reading response stream"]
    ELSE IF body.kind # "lines"
    THEN [lines |-> <<>>, err |-> "parsing JSONL line"]
    ELSE [lines |-> Records(0, body.n),
          err |-> IF body.bad THEN "parsing JSONL line" ELSE ""]

\* c.Get has returned: the status check, then the lines are streamed out.
ProcessExport ==
    /\ fpc = "call"
    /\ cmd = "export"
    /\ cpc = "returned"
    /\ cpc' = "idle"
    /\ IF callErr # "" THEN Fail("requesting event export")
       ELSE IF resp.status >= 400
       THEN LET body == readResponseBody(resp).body
            IN  FailWith("API error", [code |-> resp.status, text |-> <<>>])
       ELSE LET st == Stream(resp.body)
            IN  /\ fpc' = IF st.err # "" THEN "failed" ELSE "done"
                /\ err' = st.err
                /\ errDetail' = NoDetail
                /\ out' = IF st.lines = <<>> THEN out
                          ELSE [written |-> TRUE, total |-> Len(st.lines),
                                count |-> Len(st.lines), results |-> st.lines]
                /\ UNCHANGED <<page, sessionID, totalFromAPI, allResults, served,
                               firstTotal, tokens>>
    /\ UNCHANGED <<pageSize, limit, c, params, baseParams, pageReqs, ncalls>>
    /\ openBodies' = IF callErr = "" THEN openBodies - 1 ELSE openBodies
    /\ UNCHANGED <<attempt, resp, callErr, wait, callLog, callReqs, nreq>>
    /\ UNCHANGED <<call, reqBody, sent, slept, closed>>
    /\ UNCHANGED <<fnVars, inputVars, storeVars, groups>>

(***************************************************************************)
(* The configuration file (config.go) and the commands config set, get and *)
(* list (cmd/config.go).                                                   *)
(***************************************************************************)
KeyProjectID == "project_id"
KeyRegion == "region"
KeyServiceAccount == "service_account"
KeyServiceSecret == "service_secret"

sensitiveKeys == {KeyServiceSecret}
knownKeys == {KeyProjectID, KeyRegion, KeyServiceAccount, KeyServiceSecret}
KnownKeyNames == <<KeyProjectID, KeyRegion, KeyServiceAccount, KeyServiceSecret>>

\* The file before the first config set.
EmptyStore == [k \in knownKeys |-> <<>>]

Stars == <<"*", "*", "*", "*">>

\* Variant: the value goes out as it is stored.
mask_Plain(t) == t

\* mask
mask(t) == IF Len(t) <= 4 THEN Stars ELSE SubSeq(t, 1, 4) \o Stars

\* Config.Get: viper gives "" for a key without value.
ConfigGetValue(st, key) == IF key \in DOMAIN st THEN st[key] ELSE <<>>

\* Variant: the region is stored as it was given.
ConfigSetValue_KeepCase(st, key, value) ==
    IF key \notin knownKeys THEN [err |-> "unknown config key", store |-> st]
    ELSE IF key = KeyRegion
    THEN LET lower == ToLower(value)
         IN  IF Str(lower) # "us" /\ Str(lower) # "eu" /\ Str(lower) # "in"
             THEN [err |-> "invalid region", store |-> st]
             ELSE [err |-> "", store |-> [st EXCEPT ![key] = value]]
    ELSE [err |-> "", store |-> [st EXCEPT ![key] = value]]

\* Config.Set: [err, store].
ConfigSetValue(st, key, value) ==
    IF key \notin knownKeys THEN [err |-> "unknown config key", store |-> st]
    ELSE IF key = KeyRegion
    THEN LET lower == ToLower(value)
         IN  IF Str(lower) # "us" /\ Str(lower) # "eu" /\ Str(lower) # "in"
             THEN [err |-> "invalid region", store |-> st]
             ELSE [err |-> "", store |-> [st EXCEPT ![key] = lower]]
    ELSE [err |-> "", store |-> [st EXCEPT ![key] = value]]

RECURSIVE ListFrom(_, _)
\* The loop of Config.List from the i-th known key on.
ListFrom(st, i) ==
    IF i > Len(KnownKeyNames) THEN <<>>
    ELSE LET key == KnownKeyNames[i]
             val == st[key]
         IN  IF val = <<>> THEN ListFrom(st, i + 1)
             ELSE <<[key |-> key,
                     value |-> IF key \in sensitiveKeys THEN mask(val) ELSE val]>>
                  \o ListFrom(st, i + 1)

\* Config.List
List(st) == ListFrom(st, 1)

\* What IOStreams writes of entry e: nothing in quiet mode.
Emit(quiet, e) == IF quiet THEN <<>> ELSE <<e>>

\* mp config set <key> <value>
ConfigSet(key, value, quiet) ==
    /\ cmd = "config"
    /\ LET r == ConfigSetValue(store, key, value)
       IN  /\ cfgErr' = r.err
           /\ store' = r.store
           /\ printed' = IF r.err # "" THEN <<>>
                         ELSE Emit(quiet, [key |-> key, value |-> value])
    /\ UNCHANGED <<loopVars, cmdVars, callVars, fnVars, inputVars, groups>>

\* mp config get <key>
ConfigGet(key, quiet) ==
    /\ cmd = "config"
    /\ LET val == ConfigGetValue(store, key)
       IN  IF val = <<>>
           THEN cfgErr' = "key is not set" /\ printed' = <<>>
           ELSE cfgErr' = "" /\ printed' = Emit(quiet, [key |-> key, value |-> val])
    /\ UNCHANGED <<store, loopVars, cmdVars, callVars, fnVars, inputVars, groups>>

\* mp config list: the entries go out as JSON or as the rows of the table.
ConfigList ==
    /\ cmd = "config"
    /\ cfgErr' = ""
    /\ printed' = List(store)
    /\ UNCHANGED <<store, loopVars, cmdVars, callVars, fnVars, inputVars, groups>>

KeyInputs == knownKeys \cup {"token"}
ValueInputs ==
    { <<>>, <<"E", "U">>, <<"i", "n">>, <<"u", "k">>, <<"a", "b", "c">>,
      <<"s", "3", "c", "r", "3", "t">>, <<"*", "*", "*", "*">> }

(***************************************************************************)
(* Functions applied on their own.                                         *)
(***************************************************************************)
HugeRetryAfter == <<"9", "2", "2", "3", "3", "7", "2", "0", "3", "7">>
LargestExactRetryAfter == <<"9", "2", "2", "3", "3", "7", "2", "0", "3", "6">>
OutOfRangeRetryAfter ==
    <<"9", "9", "9", "9", "9", "9", "9", "9", "9", "9",
      "9", "9", "9", "9", "9", "9", "9", "9", "9", "9">>

RetryAfterInputs ==
    { <<>>, <<"5">>, <<"1">>, <<"0">>, <<"-", "3">>, <<"+", "7">>, <<"1", "0">>,
      <<"0", "5">>, <<"a", "b", "c">>, <<"1", ".", "5">>, <<" ", "5">>, <<"5", "s">>,
      <<"-">>, LargestExactRetryAfter, HugeRetryAfter, OutOfRangeRetryAfter }

FamilyInputs ==
    { APIFamilyQuery, APIFamilyExport, APIFamilyApp, APIFamilyIngestion,
      "", "Query", "data", "us" }
RegionInputs == { RegionUS, RegionEU, RegionIN, "", "US", "uk", "query" }


\* Texts of the configuration values and of MP_TOKEN.
AccountInputs == { <<>>, <<"a", "c">>, <<"b">> }
SecretInputs == { <<>>, <<"s", "3", "c">> }
TokenInputs ==
    { <<>>, <<"u", ":", "p">>, <<"u">>, <<":", "p">>, <<"u", ":">>, <<":">>,
      <<"u", ":", "p", ":", "q">>, <<":", "p", ":", "q">>, <<"u", ":", "p", ":">> }
RegionTexts ==
    { <<>>, <<"u", "s">>, <<"e", "u">>, <<"i", "n">>, <<"E", "U">>, <<"U", "s">>,
      <<"u", "k">> }
ProjectInputs == { <<>>, <<"1", "2">> }
DebugInputs == { "", "1", "true" }

ViperInputs ==
    [service_account : AccountInputs, service_secret : SecretInputs,
     region : RegionTexts, project_id : ProjectInputs]
EnvInputs == [MP_TOKEN : TokenInputs, MP_DEBUG : DebugInputs]

FnArgs ==
         { [fn |-> "backoff", attempt |-> a, retryAfter |-> ra] :
             a \in 0..MaxAttempt, ra \in RetryAfterInputs }
    \cup { [fn |-> "ResolveURL", family |-> f, region |-> r] :
             f \in FamilyInputs, r \in RegionInputs }
    \cup { [fn |-> "New", serviceAccount |-> sa, serviceSecret |-> ss,
            region |-> r, projectID |-> pid, debug |-> d] :
             sa \in AccountInputs, ss \in SecretInputs, r \in RegionTexts,
             pid \in ProjectInputs, d \in BOOLEAN }
    \cup { [fn |-> "newClient", v |-> v, environ |-> e] :
             v \in ViperInputs, e \in EnvInputs }

CallBackoff ==
    /\ fnArg.fn = "backoff"
    /\ ~fnRes.done
    /\ fnRes' = [done |-> TRUE,
                 wait |-> backoff(fnArg.attempt,
                                  Response(StatusTooManyRequests, fnArg.retryAfter, TextBody))]
    /\ UNCHANGED <<fnArg, loopVars, cmdVars, callVars, inputVars, storeVars, groups>>

CallResolveURL ==
    /\ fnArg.fn = "ResolveURL"
    /\ ~fnRes.done
    /\ fnRes' = [done |-> TRUE, res |-> ResolveURL(fnArg.family, fnArg.region)]
    /\ UNCHANGED <<fnArg, loopVars, cmdVars, callVars, inputVars, storeVars, groups>>

CallNew ==
    /\ fnArg.fn = "New"
    /\ ~fnRes.done
    /\ fnRes' = [done |-> TRUE,
                 res |-> New(fnArg.serviceAccount, fnArg.serviceSecret,
                             fnArg.region, fnArg.projectID, fnArg.debug)]
    /\ UNCHANGED <<fnArg, loopVars, cmdVars, callVars, inputVars, storeVars, groups>>

CallNewClient ==
    /\ fnArg.fn = "newClient"
    /\ ~fnRes.done
    /\ fnRes' = [done |-> TRUE, res |-> newClient(fnArg.v, fnArg.environ)]
    /\ UNCHANGED <<fnArg, loopVars, cmdVars, callVars, inputVars, storeVars, groups>>

(***************************************************************************)
(* Specifications.                                                         *)
(***************************************************************************)
\* The configurations a command is run with: a complete one through the
\* persisted values, one for each way a configuration is incomplete or
\* invalid and, for the export, a complete one through MP_TOKEN with the
\* default region.
PersistedConfig ==
    [service_account |-> <<"a", "c">>, service_secret |-> <<"s", "3", "c">>,
     region |-> <<"e", "u">>, project_id |-> <<"1", "2">>]
NoEnv == [MP_TOKEN |-> <<>>, MP_DEBUG |-> ""]
TokenEnv == [MP_TOKEN |-> <<"u", ":", "p">>, MP_DEBUG |-> "1"]

RunInputs ==
    { [v |-> PersistedConfig, environ |-> NoEnv],
      [v |-> [PersistedConfig EXCEPT !.region = <<"E", "U">>], environ |-> NoEnv],
      [v |-> [PersistedConfig EXCEPT !.region = <<"u", "k">>], environ |-> NoEnv],
      [v |-> [PersistedConfig EXCEPT !.service_secret = <<>>], environ |-> NoEnv],
      [v |-> PersistedConfig, environ |-> [NoEnv EXCEPT !.MP_TOKEN = <<"u">>]],
      [v |-> [PersistedConfig EXCEPT !.project_id = <<>>], environ |-> NoEnv] }

ExportRunInputs ==
    RunInputs
    \cup { [v |-> [PersistedConfig EXCEPT !.service_account = <<>>,
                                          !.service_secret = <<>>, !.region = <<>>],
            environ |-> TokenEnv] }

Quiescent ==
    /\ c = NoClient
    /\ page = 0
    /\ sessionID = ""
    /\ totalFromAPI = -1
    /\ allResults = <<>>
    /\ params = NoParams
    /\ baseParams = NoValues
    /\ pageReqs = <<>>
    /\ err = ""
    /\ errDetail = NoDetail
    /\ out = NoOut
    /\ served = <<>>
    /\ firstTotal = <<>>
    /\ tokens = <<>>
    /\ cpc = "idle"
    /\ attempt = 0
    /\ resp = NoResp
    /\ callErr = ""
    /\ wait = Zero(Int64Limbs)
    /\ callLog = <<>>
    /\ callReqs = 0
    /\ call = NoCall
    /\ reqBody = NoBody
    /\ sent = <<>>
    /\ slept = 0
    /\ openBodies = 0
    /\ closed = <<>>
    /\ nreq = 0
    /\ ncalls = 0

\* One run of a profiles command against an arbitrary server.
Init ==
    /\ \/ /\ cmd = "profiles"
          /\ pageSize \in PageSizeInputs
          /\ limit \in LimitInputs
          /\ \E i \in RunInputs : config = i.v /\ environ = i.environ
       \/ /\ cmd = "export"
          /\ pageSize = MaxPageSize
          /\ limit \in ExportLimitInputs
          /\ \E i \in ExportRunInputs : config = i.v /\ environ = i.environ
    /\ fpc = "prerun"
    /\ Quiescent
    /\ fnArg = NoArg
    /\ fnRes = NoRes
    /\ store = EmptyStore
    /\ printed = <<>>
    /\ cfgErr = ""
    /\ groups = NoGroups

Next ==
    \/ PreRun
    \/ RunStart
    \/ LoopPost
    \/ SendAttempt
    \/ ReceiveError
    \/ ReceiveResponse
    \/ CloseRetried
    \/ WakeRetry
    \/ ProcessPage
    \/ ExportStart
    \/ ProcessExport

Spec == Init /\ [][Next]_vars

\* backoff and ResolveURL applied to arguments drawn from the input sets.
FnInit ==
    /\ pageSize = 1
    /\ limit = 0
    /\ cmd = "none"
    /\ config = PersistedConfig
    /\ environ = NoEnv
    /\ fpc = "off"
    /\ Quiescent
    /\ fnArg \in FnArgs
    /\ fnRes = NoRes
    /\ store = EmptyStore
    /\ printed = <<>>
    /\ cfgErr = ""
    /\ groups = NoGroups

FnNext ==
    \/ CallBackoff
    \/ CallResolveURL
    \/ CallNew
    \/ CallNewClient

SpecFn == FnInit /\ [][FnNext]_vars

\* The config commands, one run after the other on the same file.
ConfigInit ==
    /\ pageSize = 1
    /\ limit = 0
    /\ cmd = "config"
    /\ config = PersistedConfig
    /\ environ = NoEnv
    /\ fpc = "off"
    /\ Quiescent
    /\ fnArg = NoArg
    /\ fnRes = NoRes
    /\ store = EmptyStore
    /\ printed = <<>>
    /\ cfgErr = ""
    /\ groups = NoGroups

ConfigNext ==
    \/ \E key \in KeyInputs, value \in ValueInputs, quiet \in BOOLEAN :
           ConfigSet(key, value, quiet)
    \/ \E key \in KeyInputs, quiet \in BOOLEAN : ConfigGet(key, quiet)
    \/ ConfigList

SpecConfig == ConfigInit /\ [][ConfigNext]_vars

(***************************************************************************)
(* Helpers of the properties.                                              *)
(***************************************************************************)
Min(a, b) == IF a < b THEN a ELSE b
Max(a, b) == IF a > b THEN a ELSE b

IsResponse(o) == o.kind = "response"
Is429(o) == IsResponse(o) /\ o.status = 429

\* Every attempt of the current call so far was answered with 429.
AllRateLimited == callLog # <<>> /\ \A i \in 1..Len(callLog) : Is429(callLog[i])

\* Client.do has returned to its caller.
CallOver == cpc \in {"returned", "idle"}

\* The Duration d is exactly n seconds, n a wide non-negative value.
IsSeconds(d, n) ==
    /\ ~IsNegative(d)
    /\ d \o Zero(WideLimbs - Int64Limbs) = MulSecond(n)

PageLens == [k \in 1..Len(served) |-> Len(served[k])]

\* The server holds T records and has served them so far in consecutive
\* pages of the requested size, reporting T on the first page.
HonestServer(T) ==
    /\ T >= 0
    /\ firstTotal = <<T>>
    /\ \A k \in 1..Len(served) :
          Len(served[k]) = Min(pageSize, Max(0, T - (k - 1) * pageSize))

\* Pages an honest server needs for T records.
PagesNeeded(T) == IF T = 0 THEN 1 ELSE (T + pageSize - 1) \div pageSize

(***************************************************************************)
(* Properties.                                                             *)
(***************************************************************************)
\* C1: with the retry budget of 1, a call whose every attempt is answered
\* with 429 sends exactly 2 requests and returns the second 429 response;
\* there is never a third request.
C1_TwoRequestsOnRepeated429 ==
    AllRateLimited =>
        /\ callReqs <= 2
        /\ Len(callLog) <= 2
        /\ CallOver <=> Len(callLog) = 2
        /\ CallOver => /\ callReqs = 2
                       /\ callErr = ""
                       /\ resp = callLog[2]

C1_Witness ==
    /\ cpc = "returned"
    /\ AllRateLimited
    /\ callReqs = 2
    /\ Is429(resp)

\* C2: a response with a status other than 429 ends the call: it is returned
\* unchanged and no request follows it, so a call whose first response is
\* not a 429 sends exactly one request.
C2_Only429IsRetried ==
    \A i \in 1..Len(callLog) :
        (IsResponse(callLog[i]) /\ callLog[i].status # 429) =>
            /\ i = Len(callLog)
            /\ callReqs = i
            /\ CallOver
            /\ callErr = ""
            /\ resp = callLog[i]
            /\ \A j \in 1..(i - 1) : Is429(callLog[j])

C2_Witness ==
    /\ cpc = "returned"
    /\ callLog # <<>>
    /\ IsResponse(callLog[1])
    /\ callLog[1].status = 500
    /\ callReqs = 1
    /\ resp = callLog[1]

\* C3: a transport failure on any attempt ends the call with an error and
\* no response, and no request is sent after it.
C3_TransportFailureIsFatal ==
    \A i \in 1..Len(callLog) :
        callLog[i].kind = "error" =>
            /\ i = Len(callLog)
            /\ callReqs = i
            /\ CallOver
            /\ callErr # ""
            /\ resp = NoResp

C3_Witness ==
    /\ cpc = "returned"
    /\ Len(callLog) = 2
    /\ Is429(callLog[1])
    /\ callLog[2].kind = "error"
    /\ callErr # ""
    /\ resp = NoResp

\* C4: backoff returns exactly N seconds when Retry-After parses as an
\* integer N > 0, and 2^attempt seconds otherwise.
C4_BackoffIsRetryAfterOrExponential ==
    (fnRes.done /\ fnArg.fn = "backoff") =>
        LET n == Atoi(fnArg.retryAfter)
        IN  IF n.ok /\ ~n.neg /\ n.mag # Zero(WideLimbs)
            THEN IsSeconds(fnRes.wait, n.mag)
            ELSE IsSeconds(fnRes.wait, FromNat(2 ^ fnArg.attempt, WideLimbs))

\* C5: with no result cap, against a server that reports T and serves its T
\* records in consecutive pages of the requested size, the loop is over with
\* exactly those T records as soon as they are complete, after exactly the
\* pages they need.
C5_HonestServerAllRecords ==
    \A T \in 0..MaxTotal :
        (/\ cmd = "profiles"
         /\ ~(limit > 0)
         /\ HonestServer(T)
         /\ Len(Flatten(served)) >= T) =>
            /\ fpc = "done"
            /\ out.written
            /\ out.results = Records(0, T)
            /\ out.count = T
            /\ out.total = T
            /\ Len(served) = PagesNeeded(T)
            /\ ncalls = PagesNeeded(T)
            /\ nreq >= ncalls
            /\ cpc = "idle"

C5_Witness ==
    /\ fpc = "done"
    /\ limit = 0
    /\ pageSize = 2
    /\ HonestServer(5)
    /\ PageLens = <<2, 2, 1>>
    /\ nreq = 3
    /\ out.count = 5

\* C6: with a result cap L > 0 the loop never returns more than L records:
\* once the pages received hold at least L records the loop is over with
\* exactly the first L of them and no further page is requested.
C6_CapBoundsResult ==
    (cmd = "profiles" /\ limit > 0) =>
        /\ out.written => out.count <= limit /\ Len(out.results) <= limit
        /\ Len(allResults) <= limit
        /\ Len(Flatten(served)) >= limit =>
              /\ fpc = "done"
              /\ out.written
              /\ out.results = SubSeq(Flatten(served), 1, limit)
              /\ out.count = limit
              /\ ncalls = Len(served)
              /\ cpc = "idle"

C6_Witness ==
    /\ fpc = "done"
    /\ limit = 3
    /\ pageSize = 2
    /\ PageLens = <<2, 2>>
    /\ firstTotal = <<5>>
    /\ out.count = 3
    /\ out.results = <<1, 2, 3>>

\* C7: whatever total the first page reported, a page with fewer records
\* than the page size is the last page requested: the loop is over.
C7_ShortPageStopsLoop ==
    \A k \in 1..Len(served) :
        Len(served[k]) < pageSize =>
            /\ k = Len(served)
            /\ fpc = "done"
            /\ ncalls = k
            /\ cpc = "idle"
            /\ out.written

C7_Witness ==
    /\ fpc = "done"
    /\ limit = 0
    /\ pageSize = 2
    /\ firstTotal = <<5>>
    /\ PageLens = <<2, 1>>
    /\ out.count = 3

\* C8: a page envelope is accepted only with status "ok" or ""; with any
\* other status the command fails without output, earlier pages or not, and
\* the page that carried it is the last one requested.
C8_BadEnvelopeStatusFails ==
    (/\ cpc = "idle"
     /\ ncalls > 0
     /\ callErr = ""
     /\ IsResponse(resp)
     /\ resp.status < 400
     /\ resp.body.kind = "envelope") =>
        IF resp.body.status \in {"ok", ""}
        THEN /\ fpc \in {"loop", "done"}
             /\ Len(served) = ncalls
        ELSE /\ fpc = "failed"
             /\ err # ""
             /\ out = NoOut
             /\ Len(served) = ncalls - 1

C8_Witness ==
    /\ fpc = "failed"
    /\ cpc = "idle"
    /\ IsResponse(resp)
    /\ resp.body.kind = "envelope"
    /\ resp.body.status = "error"
    /\ Len(served) >= 1
    /\ allResults # <<>>
    /\ out = NoOut

\* C9: when a page request fails with a transport error or ends with a
\* status >= 400, the command fails and nothing is rendered; output of a
\* fetch-all exists only once the loop has ended successfully.
C9_FailedRequestRendersNothing ==
    /\ (/\ cpc = "idle"
        /\ ncalls > 0
        /\ \/ callErr # ""
           \/ IsResponse(resp) /\ resp.status >= 400) =>
            /\ fpc = "failed"
            /\ err # ""
            /\ out = NoOut
    /\ (cmd = "profiles" /\ out.written) => fpc = "done" /\ err = ""
    /\ (cmd = "profiles" /\ fpc = "failed") => out = NoOut

C9_Witness ==
    /\ fpc = "failed"
    /\ cpc = "idle"
    /\ Len(callLog) = 2
    /\ Is429(resp)
    /\ Len(served) >= 1
    /\ allResults # <<>>
    /\ out = NoOut

\* C10: ResolveURL returns a URL exactly for the 12 pairs of a family in
\* {query, export, app, ingestion} and a region in {us, eu, in}; for every
\* other pair it returns an error and the empty string.
C10_ResolveOnlyTablePairs ==
    (fnRes.done /\ fnArg.fn = "ResolveURL") =>
        IF /\ fnArg.family \in {"query", "export", "app", "ingestion"}
           /\ fnArg.region \in {"us", "eu", "in"}
        THEN fnRes.res.err = "" /\ fnRes.res.url # ""
        ELSE fnRes.res.err # "" /\ fnRes.res.url = ""

C10_Witness ==
    /\ fnRes.done
    /\ fnArg.fn = "ResolveURL"
    /\ fnArg.family = "query"
    /\ fnArg.region = "US"
    /\ fnRes.res.err # ""
    /\ fnRes.res.url = ""

(***************************************************************************)
(* Construction of the client and choice of the credentials.               *)
(***************************************************************************)
RegionNames == {"us", "eu", "in"}

\* C11: client.New succeeds exactly when the region is one of us, eu, in and
\* the service account and the service secret are both non-empty.
C11_NewSucceedsIffRegionAndCredentials ==
    (fnArg.fn = "New" /\ fnRes.done) =>
        ( fnRes.res.err = ""
          <=> ( /\ Str(fnArg.region) \in RegionNames
                /\ fnArg.serviceAccount # <<>>
                /\ fnArg.serviceSecret # <<>> ) )

\* New was given a valid region and an account without a secret, and failed.
C11_Witness ==
    /\ fnArg.fn = "New"
    /\ fnRes.done
    /\ Str(fnArg.region) = "eu"
    /\ fnArg.serviceAccount # <<>>
    /\ fnArg.serviceSecret = <<>>
    /\ fnRes.res.err # ""

\* An MP_TOKEN of the form account:secret, both parts non-empty, split at
\* its first colon.
WellFormedToken(t) ==
    \E k \in 2..(Len(t) - 1) : t[k] = ":" /\ \A j \in 1..(k - 1) : t[j] # ":"

\* The region newClient passes on is one New accepts.
RegionAccepted(v) == v.region = <<>> \/ Str(v.region) \in RegionNames

\* C12: a well-formed MP_TOKEN gives the credentials of the client whatever
\* the persisted configuration holds, an unset MP_TOKEN leaves them to the
\* persisted service_account and service_secret, and when neither source
\* gives both values newClient fails.
C12_CredentialPrecedence ==
    (fnArg.fn = "newClient" /\ fnRes.done) =>
        LET v == fnArg.v
            t == fnArg.environ.MP_TOKEN
            persisted == v.service_account # <<>> /\ v.service_secret # <<>>
            res == fnRes.res
        IN  /\ WellFormedToken(t) =>
                /\ RegionAccepted(v) => res.err = ""
                /\ res.err = "" => res.client.auth = Base64(t)
            /\ (t = <<>> /\ persisted) =>
                /\ RegionAccepted(v) => res.err = ""
                /\ res.err = "" =>
                      res.client.auth =
                          Base64(v.service_account \o <<":">> \o v.service_secret)
            /\ (~WellFormedToken(t) /\ ~persisted) => res.err # ""

\* A well-formed MP_TOKEN met a complete persisted configuration with other
\* credentials, and the client carries the credentials of the token.
C12_Witness ==
    /\ fnArg.fn = "newClient"
    /\ fnRes.done
    /\ WellFormedToken(fnArg.environ.MP_TOKEN)
    /\ fnArg.v.service_account # <<>>
    /\ fnArg.v.service_secret # <<>>
    /\ fnRes.res.err = ""
    /\ fnRes.res.client.auth = Base64(fnArg.environ.MP_TOKEN)
    /\ fnRes.res.client.auth #
           Base64(fnArg.v.service_account \o <<":">> \o fnArg.v.service_secret)

(***************************************************************************)
(* Start of a command.                                                     *)
(***************************************************************************)
\* The command has passed its checks or has failed in them.
Started == fpc \notin {"off", "prerun", "start"}

PageSizeAllowed == pageSize >= 1 /\ pageSize <= MaxPageSize

\* The credentials of the run are complete: a well-formed MP_TOKEN, or no
\* MP_TOKEN and both persisted values.
CredentialsGiven ==
    \/ WellFormedToken(environ.MP_TOKEN)
    \/ /\ environ.MP_TOKEN = <<>>
       /\ config.service_account # <<>>
       /\ config.service_secret # <<>>

\* C13: a region given in any letter case is accepted and the client is
\* built for the lowercase region; a value outside us, eu, in fails.
C13_RegionAcceptedInAnyCase ==
    (Started /\ cmd = "profiles" /\ config.region # <<>>) =>
        IF Str(ToLower(config.region)) \in RegionNames
        THEN (PageSizeAllowed /\ CredentialsGiven) =>
                 /\ err # "invalid region"
                 /\ c.region = Str(ToLower(config.region))
        ELSE fpc = "failed" /\ err = "invalid region"

\* The run has one of the configuration errors of the claim.
ConfigurationError ==
    \/ ~PageSizeAllowed
    \/ ~RegionAccepted(config)
    \/ ~CredentialsGiven
    \/ config.project_id = <<>>

\* C14: a run of profiles query or profiles groups whose configuration has
\* an error (page size, region, credentials, project id) ends in that error
\* without a request having been sent.
C14_ConfigurationErrorBeforeAnyRequest ==
    (cmd = "profiles" /\ ConfigurationError) =>
        /\ nreq = 0
        /\ ncalls = 0
        /\ Started => (fpc = "failed" /\ err # "")

\* A run without project id, everything else in order, has failed.
C14_Witness ==
    /\ cmd = "profiles"
    /\ fpc = "failed"
    /\ config.project_id = <<>>
    /\ PageSizeAllowed
    /\ RegionAccepted(config)
    /\ CredentialsGiven
    /\ err = "project ID is required"
    /\ nreq = 0

(***************************************************************************)
(* API errors.                                                             *)
(***************************************************************************)
\* C15: when the final response of a command has a status >= 400, the
\* command fails with a message that carries the status code and the
\* trimmed text of the response body, in export events as in the commands
\* that read the body through readResponseBody.
C15_ApiErrorCarriesStatusAndBody ==
    (/\ cpc = "idle"
     /\ ncalls > 0
     /\ callErr = ""
     /\ IsResponse(resp)
     /\ resp.status >= 400) =>
        /\ fpc = "failed"
        /\ err = "API error"
        /\ errDetail = [code |-> resp.status, text |-> TrimSpace(BodyText(resp.body))]

(***************************************************************************)
(* Total and continuation token of a fetch-all.                            *)
(***************************************************************************)
\* C16: the total the loop stops on and reports is the total of the first
\* accepted envelope, whatever totals the later envelopes carry.
C16_TotalIsFirstPageTotal ==
    (cmd = "profiles" /\ firstTotal # <<>>) =>
        /\ totalFromAPI = firstTotal[1]
        /\ out.written => out.total = firstTotal[1]

\* Two pages were accepted, the last one with another total than the first,
\* and the output reports the first.
C16_Witness ==
    /\ cmd = "profiles"
    /\ fpc = "done"
    /\ Len(served) >= 2
    /\ resp.body.kind = "envelope"
    /\ firstTotal # <<>>
    /\ resp.body.total # firstTotal[1]
    /\ out.total = firstTotal[1]

\* C17 as stated: the first request carries no session_id and every later
\* request carries the session_id of the first response.
C17_LaterRequestsCarryFirstToken ==
    (cmd = "profiles" /\ params # NoParams) =>
        IF params.page = 0 THEN params.session_id = ""
        ELSE params.session_id = tokens[1]

\* C17: the first request carries no session_id and every later request
\* carries the session_id of the envelope accepted just before it, none when
\* that session_id was empty.
C17_LaterRequestsCarryLatestToken ==
    (cmd = "profiles" /\ fpc = "call") =>
        IF params.page = 0 THEN params.session_id = ""
        ELSE params.session_id = tokens[2]

\* The request of the third page is out and carries the token of the second
\* envelope, which is not the token of the first.
C17_Witness ==
    /\ cmd = "profiles"
    /\ fpc = "call"
    /\ cpc = "await"
    /\ params.page = 2
    /\ tokens[1] = "s1"
    /\ tokens[2] = "s2"
    /\ params.session_id = "s2"

(***************************************************************************)
(* The requests as they go out.                                            *)
(***************************************************************************)
\* C18: the retry of a POST after a 429 goes out with the method, the URL
\* and the headers of the first attempt and with the whole encoded form as
\* its body, as the first attempt did.
C18_RetrySendsSameRequest ==
    \A i \in 1..Len(sent) :
        /\ sent[i] = sent[1]
        /\ sent[i].method = "POST" =>
              /\ sent[i].body = Encode(call.form)
              /\ sent[i].body # ""
              /\ sent[i].contentType = "application/x-www-form-urlencoded"

\* The retry of a POST is out, after a 429.
C18_Witness ==
    /\ cpc = "await"
    /\ Len(sent) = 2
    /\ callLog # <<>>
    /\ Is429(callLog[1])
    /\ sent[2].method = "POST"
    /\ sent[2].body = sent[1].body
    /\ sent[2].body # ""

\* Requests of the current call that are out and not answered.
InFlight == callReqs - Len(callLog)

\* C19: at most one request is in flight; a retry goes out only after the
\* 429 has come in and the sleep has ended, and the request of a page goes
\* out only after the pages before it were read, closed and parsed.
C19_OneRequestAtATime ==
    /\ InFlight \in {0, 1}
    /\ InFlight = 1 <=> cpc = "await"
    /\ callReqs <= slept + 1
    /\ \A i \in 1..(callReqs - 1) : Is429(callLog[i])
    /\ openBodies \in {0, 1}
    /\ cpc \in {"send", "await", "sleep"} => openBodies = 0
    /\ (cmd = "profiles" /\ fpc = "call") =>
           /\ Len(served) = params.page
           /\ ncalls = params.page + 1

\* The request of the second page is in flight as a retry: the first page
\* was parsed, the 429 was received and the sleep is over.
C19_Witness ==
    /\ cmd = "profiles"
    /\ fpc = "call"
    /\ cpc = "await"
    /\ params.page = 1
    /\ Len(served) = 1
    /\ callReqs = 2
    /\ slept = 1
    /\ Len(callLog) = 1
    /\ openBodies = 0

(***************************************************************************)
(* The secret in the output.                                               *)
(***************************************************************************)
\* The text hay has the text needle in it.
Contains(hay, needle) ==
    \E i \in 1..(Len(hay) - Len(needle) + 1) :
        SubSeq(hay, i, i + Len(needle) - 1) = needle

\* C20: no config command (set, get, list) prints the value of
\* service_secret unmasked.
C20_SecretNeverPrinted ==
    \A i \in 1..Len(printed) :
        (printed[i].key = KeyServiceSecret /\ store[KeyServiceSecret] # <<>>) =>
            ~Contains(printed[i].value, store[KeyServiceSecret])

(***************************************************************************)
(* The two pagination loops.                                               *)
(***************************************************************************)
\* C21: given the page size, the cap and the responses of the query, the
\* loop of profiles groups is where the loop of profiles query is: the same
\* page index and session_id in the request, the same stop, the same
\* accumulated records, count and total.
C21_GroupsLoopIsQueryLoop ==
    (cmd = "profiles" /\ Started) =>
        /\ groups.fpc = fpc
        /\ groups.page = page
        /\ groups.sessionID = sessionID
        /\ groups.totalFromAPI = totalFromAPI
        /\ groups.allResults = allResults
        /\ groups.params = params
        /\ groups.out = out
        /\ groups.err = "" <=> err = ""

\* Both loops are over after three pages, with the same output.
C21_Witness ==
    /\ cmd = "profiles"
    /\ fpc = "done"
    /\ groups.fpc = "done"
    /\ Len(served) = 3
    /\ groups.params.page = 2
    /\ groups.out.written
    /\ groups.out = out
    /\ out.count >= 3

(***************************************************************************)
(* The steps of a retry.                                                   *)
(***************************************************************************)
\* The last outcome of the current call.
LastOutcome == callLog[Len(callLog)]

\* The form body was read by the attempt that is out and not rebuilt since.
BodyConsumed == call.form # <<>> => reqBody.s = ""

\* The positions in callLog of the responses the client closed.
ClosedByClient == {closed[k] : k \in 1..Len(closed)}

\* C22: after a 429 with budget left the client computes the wait from that
\* response, then closes its body, then sleeps, then rebuilds the form body,
\* then sends the retry; a response is closed by the client or returned to
\* the caller with its body open, never both and never neither.
C22_RetryStepsInOrder ==
    /\ cpc = "close" =>
          /\ Is429(LastOutcome)
          /\ attempt < maxRetries
          /\ wait = backoff(attempt, LastOutcome)
          /\ openBodies = 1
          /\ Len(callLog) \notin ClosedByClient
          /\ slept = attempt
          /\ BodyConsumed
          /\ callReqs = attempt + 1
    /\ cpc = "sleep" =>
          /\ Is429(LastOutcome)
          /\ wait = backoff(attempt, LastOutcome)
          /\ openBodies = 0
          /\ closed[Len(closed)] = Len(callLog)
          /\ slept = attempt
          /\ BodyConsumed
          /\ callReqs = attempt + 1
    /\ (cpc = "send" /\ attempt > 0) =>
          /\ slept = attempt
          /\ openBodies = 0
          /\ reqBody.s = Encode(call.form)
          /\ callReqs = attempt
    /\ (cpc = "returned" /\ call # NoCall) =>
          \A i \in 1..Len(callLog) :
              IsResponse(callLog[i]) =>
                  LET byClient == i \in ClosedByClient
                      toCaller == /\ i = Len(callLog)
                                  /\ callErr = ""
                                  /\ resp = callLog[i]
                                  /\ openBodies = 1
                  IN  byClient # toCaller

\* A call is over after a retry: the 429 was closed by the client and the
\* answer to the retry went to the caller with its body open.
C22_Witness ==
    /\ cpc = "returned"
    /\ Len(callLog) = 2
    /\ Is429(callLog[1])
    /\ closed = <<1>>
    /\ resp = callLog[2]
    /\ openBodies = 1
    /\ slept = 1

(***************************************************************************)
(* The page requests of one fetch-all.                                     *)
(***************************************************************************)
\* A form without its page and session_id.
WithoutPaging(values) ==
    [k \in DOMAIN values \ {"page", "session_id"} |-> values[k]]

\* C23: the page requests carry the indices 0, 1, 2, ... in order, and apart
\* from page and session_id each carries the base parameters, which the loop
\* never modifies; the index starts at 0 and moves on by exactly 1, only
\* after a page was accepted and no stop condition held.
C23_PageIndicesAndBaseParams ==
    /\ [](cmd = "profiles" =>
            /\ Len(pageReqs) = ncalls
            /\ \A i \in 1..Len(pageReqs) :
                  /\ pageReqs[i]["page"] = Itoa(i - 1)
                  /\ WithoutPaging(pageReqs[i]) = baseParams
            /\ fpc = "loop" => page = Len(pageReqs)
            /\ fpc = "call" => page = Len(pageReqs) - 1
            /\ fpc \in {"loop", "call"} =>
                  baseParams = [page_size |-> Itoa(pageSize),
                                project_id |-> Str(requireProjectID(config).pid)])
    /\ [][(cmd = "profiles" /\ fpc \in {"loop", "call"}) =>
            /\ baseParams' = baseParams
            /\ page' # page =>
                  /\ page' = page + 1
                  /\ fpc = "call" /\ fpc' = "loop"
                  /\ served' = Append(served, SubSeq(allResults', Len(allResults) + 1,
                                                     Len(allResults')))
                  /\ ~(limit > 0 /\ Len(allResults') >= limit)
                  /\ ~(Len(allResults') >= totalFromAPI')
                  /\ ~(Len(served'[Len(served')]) < pageSize)]_vars

\* The third page request is out: indices 0, 1, 2.
C23_Witness ==
    /\ cmd = "profiles"
    /\ fpc = "call"
    /\ Len(pageReqs) = 3
    /\ pageReqs[3]["page"] = "2"
    /\ "session_id" \in DOMAIN pageReqs[3]
    /\ page = 2

(***************************************************************************)
(* The client under use.                                                   *)
(***************************************************************************)
\* C24: once constructed the client is immutable: no step of a Get or Post,
\* retried or failed, changes its auth, region, project id or debug flag or
\* writes to the configuration; every request is sent with the credentials
\* of the client, and every page request to the base URL of its region.
C24_ClientImmutableUnderUse ==
    /\ [](c # NoClient =>
            \A i \in 1..Len(sent) :
                /\ sent[i].authorization = [basic |-> c.auth]
                /\ cmd = "profiles" =>
                      sent[i].url = baseURLs[APIFamilyQuery][c.region] \o "/engage")
    /\ [][c # NoClient => /\ c' = c
                          /\ config' = config
                          /\ store' = store]_vars

\* The second page request was retried after a 429 and then failed in
\* transport, with a client of region eu.
C24_Witness ==
    /\ cmd = "profiles"
    /\ c # NoClient
    /\ c.region = "eu"
    /\ ncalls = 2
    /\ cpc = "returned"
    /\ Len(sent) = 2
    /\ callErr # ""

(***************************************************************************)
(* The configuration commands.                                             *)
(***************************************************************************)
\* Set(key, value) is refused: the key is unknown or the value is no region
\* after lowercasing.
SetRefused(key, value) ==
    \/ key \notin {"project_id", "region", "service_account", "service_secret"}
    \/ key = "region" /\ Str(ToLower(value)) \notin RegionNames

ListedKeys == <<"project_id", "region", "service_account", "service_secret">>

\* What the listing shows for key k of store st.
Shown(st, k) ==
    IF k # "service_secret" THEN st[k]
    ELSE IF Len(st[k]) <= 4 THEN <<"*", "*", "*", "*">>
    ELSE <<st[k][1], st[k][2], st[k][3], st[k][4], "*", "*", "*", "*">>

IsPrefix(s, t) == Len(s) <= Len(t) /\ s = SubSeq(t, 1, Len(s))

\* C27: after every accepted page and before the cap truncation the
\* accumulator is the concatenation, in request order, of the pages received
\* so far; the result returned is a prefix of that concatenation, and the
\* whole of it when no cap is set. The same holds for the groups loop.
C27_AccumulatorIsConcatenation ==
    cmd = "profiles" =>
        /\ fpc \in {"loop", "call", "failed"} =>
              /\ allResults = Flatten(served)
              /\ groups.allResults = Flatten(served)
        /\ out.written =>
              /\ IsPrefix(out.results, Flatten(served))
              /\ out.count = Len(out.results)
              /\ ~(limit > 0) => out.results = Flatten(served)
        /\ groups.out.written =>
              /\ IsPrefix(groups.out.results, Flatten(served))
              /\ ~(limit > 0) => groups.out.results = Flatten(served)

\* Two full pages were accepted and the cap cut the result within the
\* second.
C27_Witness ==
    /\ cmd = "profiles"
    /\ fpc = "done"
    /\ PageLens = <<2, 2>>
    /\ limit = 3
    /\ out.results = <<1, 2, 3>>
    /\ Flatten(served) = <<1, 2, 3, 4>>

\* The least n with n * d >= t, for t >= 0 and d >= 1.
CeilDiv(t, d) == (t + d - 1) \div d

\* C28: when the first page reports a total T >= 0, the fetch-all sends at
\* most max(1, ceil(T / pageSize)) page requests, whatever the server
\* returns afterwards; when that total is 0 (or left out) exactly one page is
\* requested, also when that page is full.
C28_PageRequestsBoundedByFirstTotal ==
    (cmd = "profiles" /\ firstTotal # <<>> /\ firstTotal[1] >= 0) =>
        /\ ncalls <= Max(1, CeilDiv(firstTotal[1], pageSize))
        /\ Len(pageReqs) = ncalls
        /\ firstTotal[1] = 0 => /\ ncalls = 1
                                /\ Len(served) = 1
                                /\ fpc = "done"

\* The first page reported 4 records for a page size of 2; the second page
\* reported another total and was the last.
C28_Witness ==
    /\ cmd = "profiles"
    /\ fpc = "done"
    /\ pageSize = 2
    /\ limit = 0
    /\ firstTotal = <<4>>
    /\ PageLens = <<2, 2>>
    /\ resp.body.total = 5
    /\ ncalls = 2

\* The first page was full and reported the total 0: no second request.
C28_WitnessZero ==
    /\ cmd = "profiles"
    /\ fpc = "done"
    /\ pageSize = 2
    /\ firstTotal = <<0>>
    /\ PageLens = <<2>>
    /\ ncalls = 1

\* C29: the retry budget belongs to each Get or Post call, not to the
\* fetch-all: the first 429 of every page request is retried, whatever
\* happened on the pages before, so a fetch-all that has requested N pages
\* has sent between N and 2N HTTP requests; a page whose retry is answered
\* with 429 as well fails the whole fetch-all without output.
C29_RetryBudgetIsPerCall ==
    cmd = "profiles" =>
        /\ nreq <= 2 * ncalls
        /\ callReqs <= 2
        /\ cpc = "idle" => ncalls <= nreq
        /\ (Len(callLog) = 1 /\ Is429(callLog[1])) =>
              cpc \in {"close", "sleep", "send", "await"}
        /\ (cpc = "send" /\ callReqs = 0) => attempt = 0
        /\ (cpc = "idle" /\ ncalls > 0 /\ callErr = "" /\ Is429(resp)) =>
              /\ Len(callLog) = 2
              /\ Is429(callLog[1])
              /\ fpc = "failed"
              /\ err # ""
              /\ out = NoOut

\* Two pages, each retried once after a 429: four requests, and the
\* fetch-all succeeded.
C29_Witness ==
    /\ cmd = "profiles"
    /\ fpc = "done"
    /\ ncalls = 2
    /\ nreq = 4
    /\ Len(served) = 2
    /\ out.written

\* The retry of the second page was answered with 429: the fetch-all failed
\* after one accepted page.
C29_WitnessFailed ==
    /\ cmd = "profiles"
    /\ fpc = "failed"
    /\ cpc = "idle"
    /\ ncalls = 2
    /\ Len(served) = 1
    /\ Len(callLog) = 2
    /\ Is429(callLog[1]) /\ Is429(callLog[2])
    /\ out = NoOut

(***************************************************************************)
(* A malformed MP_TOKEN.                                                   *)
(***************************************************************************)
\* The positions of the colons of t.
Colons(t) == {k \in 1..Len(t) : t[k] = ":"}

\* The position of the first colon of t, 0 when there is none.
FirstColon(t) ==
    IF Colons(t) = {} THEN 0
    ELSE CHOOSE k \in Colons(t) : \A j \in Colons(t) : k <= j

\* t is not empty and has no colon, or nothing before its first colon, or
\* nothing after it.
MalformedToken(t) ==
    /\ t # <<>>
    /\ FirstColon(t) \in {0, 1, Len(t)}

\* C30: a non-empty MP_TOKEN without colon, or with an empty account or an
\* empty secret part, makes newClient fail, also when the persisted account
\* and secret are complete; a token is split at its first colon only, so
\* with several colons all that follows the first is the secret.
C30_MalformedTokenFails ==
    (fnArg.fn = "newClient" /\ fnRes.done) =>
        LET v == fnArg.v
            t == fnArg.environ.MP_TOKEN
            res == fnRes.res
        IN  /\ MalformedToken(t) =>
                /\ res.err = "MP_TOKEN must be in the format user:secret"
                /\ res.client = NoClient
            /\ (t # <<>> /\ ~MalformedToken(t) /\ RegionAccepted(v)) =>
                /\ res.err = ""
                /\ res.client.auth =
                      Base64(SubSeq(t, 1, FirstColon(t) - 1) \o <<":">>
                             \o SubSeq(t, FirstColon(t) + 1, Len(t)))

\* MP_TOKEN without a colon met a complete persisted configuration, and
\* newClient failed.
C30_Witness ==
    /\ fnArg.fn = "newClient"
    /\ fnRes.done
    /\ fnArg.environ.MP_TOKEN = <<"u">>
    /\ fnArg.v.service_account # <<>>
    /\ fnArg.v.service_secret # <<>>
    /\ RegionAccepted(fnArg.v)
    /\ fnRes.res.err # ""

\* MP_TOKEN ending in a second colon: the secret is all that follows the
\* first.
C30_WitnessColons ==
    /\ fnArg.fn = "newClient"
    /\ fnRes.done
    /\ fnArg.environ.MP_TOKEN = <<"u", ":", "p", ":">>
    /\ fnRes.res.err = ""

====
